---- MODULE Spec2Model ----
(***************************************************************************)
(* Rule engine of bevy-tetris (src/src/main.rs): the per-frame system      *)
(* move_current_tetromino acting on the four blocks of the current         *)
(* tetromino and on the heap, with spawn_current_tetromino,                *)
(* rotate_tetromino_block and check_tetromino_positions.                   *)
(***************************************************************************)
EXTENDS Integers, Sequences, FiniteSets, TLC

VARIABLES
    tetromino_type,  \* Tetromino.tetromino_type shared by the four current blocks
    current,         \* the four CurrentTetromino blocks, in spawn order:
                     \* [x, y] = MatrixPosition, [ix, iy] = Tetromino.index
    heap,            \* the grid positions of the Heap blocks, in the order they were added
    stage,           \* "input": the frame's input is being collected;
                     \* "update": move_current_tetromino is about to run on it
    keyboard_input,  \* the intents of the frame: Input<KeyCode>::just_pressed and
                     \* soft_drop_timer.0.finished; empty once the frame has used them
    outcome,         \* the branch of move_current_tetromino the last frame took and,
                     \* when it rejected a rotation, the intents it had
    x_over,          \* the x_over the last frame computed (line 186), 0 if it computed none
    rejections       \* how many rotations have been rejected so far

vars == <<tetromino_type, current, heap, stage, keyboard_input, outcome, x_over, rejections>>

----------------------------------------------------------------------------
(* Matrix.width as setup builds it *)
width == 10

(* Matrix.height: setup builds 22 rows; the exploration takes a grid of this
   many rows, on which every tetromino still spawns whole *)
height == 4

(* Bounds of the exploration *)
MaxTetrominoes == 2 \* tetrominoes whose frames are explored, the first included
MaxKeys == 1        \* intents (keys, timer pulse) that may coincide in one frame
MaxType == 2        \* rand::random() is explored for the types 0..MaxType
MaxRejected == 1    \* rejected rotations explored
CombinedKeys == 2   \* intents that may coincide in one frame of SpecCombined
CombinedType == 2   \* the tetromino type SpecCombined explores
RotationShift == 2  \* columns left and right of the spawn column in SpecRotation
LiveTetrominoes == 1 \* tetrominoes whose frames SpecLive explores

----------------------------------------------------------------------------
(* enum TetrominoType { I = 0, O = 1, T = 2, S = 3, Z = 4, L = 5, J = 6 } *)
TetrominoType == 0..6

(* impl Distribution<TetrominoType> for Standard: the types rand::random()
   may return, of which the exploration takes the first ones *)
RandomTypes == {t \in TetrominoType : t <= MaxType}

(* Tetromino::BLOCK_INDICES *)
BLOCK_INDICES ==
    << << <<1, 3>>, <<1, 2>>, <<1, 1>>, <<1, 0>> >>,
       << <<1, 1>>, <<1, 2>>, <<2, 1>>, <<2, 2>> >>,
       << <<0, 1>>, <<1, 1>>, <<2, 1>>, <<1, 2>> >>,
       << <<0, 2>>, <<1, 2>>, <<1, 1>>, <<2, 1>> >>,
       << <<2, 2>>, <<1, 2>>, <<1, 1>>, <<0, 1>> >>,
       << <<0, 2>>, <<0, 1>>, <<1, 1>>, <<2, 1>> >>,
       << <<0, 1>>, <<1, 1>>, <<2, 1>>, <<2, 2>> >> >>

(* Tetromino::SIZES *)
SIZES == <<4, 4, 3, 3, 3, 3, 3>>

Min(a, b) == IF a < b THEN a ELSE b
Max(a, b) == IF a > b THEN a ELSE b

----------------------------------------------------------------------------
(* Tetromino::blocks_from_type: the local indices of the four blocks *)
blocks_from_type(t) == BLOCK_INDICES[t + 1]

(* A spawn that takes 4 for tetromino_matrix_size whatever the type *)
spawn_fixed_size(t) ==
    LET block(index) == [x  |-> index[1] + 3,
                         y  |-> height - 4 + index[2],
                         ix |-> index[1],
                         iy |-> index[2]]
        blocks == blocks_from_type(t)
    IN  <<block(blocks[1]), block(blocks[2]), block(blocks[3]), block(blocks[4])>>

(* spawn_current_tetromino: the four blocks of a new current tetromino *)
spawn_current_tetromino(t) ==
    LET tetromino_matrix_size == SIZES[t + 1]
        block(index) == [x  |-> index[1] + 3,
                         y  |-> height - tetromino_matrix_size + index[2],
                         ix |-> index[1],
                         iy |-> index[2]]
        blocks == blocks_from_type(t)
    IN  <<block(blocks[1]), block(blocks[2]), block(blocks[3]), block(blocks[4])>>

(* A clockwise rotation that reads index.x after it has been overwritten *)
rotate_aliased(index, matrix_size, clockwise) ==
    LET orig_x == index[1]
        orig_y == index[2]
        size == matrix_size - 1
    IN  IF clockwise
        THEN <<orig_y, size - orig_y>>
        ELSE <<size - orig_y, orig_x>>

(* A rotation about matrix_size instead of matrix_size - 1 *)
rotate_off_by_one(index, matrix_size, clockwise) ==
    LET orig_x == index[1]
        orig_y == index[2]
    IN  IF clockwise
        THEN <<orig_y, matrix_size - orig_x>>
        ELSE <<matrix_size - orig_y, orig_x>>

(* rotate_tetromino_block: the new Tetromino.index of one block *)
rotate_tetromino_block(index, matrix_size, clockwise) ==
    LET orig_x == index[1]
        orig_y == index[2]
        size == matrix_size - 1
    IN  IF clockwise
        THEN <<orig_y, size - orig_x>>
        ELSE <<size - orig_y, orig_x>>

(* check_tetromino_positions: no current block below the floor or on a heap block *)
check_tetromino_positions(blocks, hp) ==
    \A i \in 1..4 :
        /\ ~(blocks[i].y < 0)
        /\ \A j \in 1..Len(hp) : ~(blocks[i].x = hp[j][1] /\ blocks[i].y = hp[j][2])

----------------------------------------------------------------------------
(* A lock-in that leaves the last block of the tetromino off the heap *)
heap_insert_three(hp, blocks) ==
    hp \o << <<blocks[1].x, blocks[1].y>>, <<blocks[2].x, blocks[2].y>>,
             <<blocks[3].x, blocks[3].y>> >>

(* commands.insert_one(entity, Heap) for the four blocks, in query order *)
HeapInsertAll(hp, blocks) ==
    hp \o << <<blocks[1].x, blocks[1].y>>, <<blocks[2].x, blocks[2].y>>,
             <<blocks[3].x, blocks[3].y>>, <<blocks[4].x, blocks[4].y>> >>

HeapPositions(hp) == {hp[j] : j \in 1..Len(hp)}

Shift(blocks, dx, dy) ==
    LET moved(b) == [b EXCEPT !.x = @ + dx, !.y = @ + dy]
    IN  <<moved(blocks[1]), moved(blocks[2]), moved(blocks[3]), moved(blocks[4])>>

Positions(blocks) ==
    << <<blocks[1].x, blocks[1].y>>, <<blocks[2].x, blocks[2].y>>,
       <<blocks[3].x, blocks[3].y>>, <<blocks[4].x, blocks[4].y>> >>

Indices(blocks) ==
    << <<blocks[1].ix, blocks[1].iy>>, <<blocks[2].ix, blocks[2].iy>>,
       <<blocks[3].ix, blocks[3].iy>>, <<blocks[4].ix, blocks[4].iy>> >>

----------------------------------------------------------------------------
(* The intents one frame can read: just_pressed of I/Up ("hard"), J/Left,     *)
(* L/Right, K/Down, X and Z, and "pulse" for soft_drop_timer.0.finished.      *)
KeyNames == {"hard", "left", "right", "down", "x", "z", "pulse"}
Inputs == {s \in SUBSET KeyNames : Cardinality(s) <= MaxKeys}
NoInput == {}

(* A move_y that the K and Down keys set and the timer does not *)
move_y_keys_only(inp) == IF "down" \in inp THEN -1 ELSE 0

(* lines 158-171 *)
MoveX(inp) == (IF "left" \in inp THEN -1 ELSE 0) + (IF "right" \in inp THEN 1 ELSE 0)
MoveY(inp) == IF "down" \in inp \/ "pulse" \in inp THEN -1 ELSE 0

(* lines 177-184: "none", or the direction; Z is read last and wins *)
ShouldRotate(inp) ==
    IF "z" \in inp THEN "ccw" ELSE IF "x" \in inp THEN "cw" ELSE "none"

(* lines 193-203: one block after rotate_tetromino_block *)
RotatedBlock(b, t, rot) ==
    IF rot = "none" THEN b
    ELSE LET ni == rotate_tetromino_block(<<b.ix, b.iy>>, SIZES[t + 1], rot = "cw")
         IN  [b EXCEPT !.ix = ni[1], !.iy = ni[2]]

(* A block whose index is rotated while its position takes the frame's move alone *)
moved_without_index_change(b, t, inp) ==
    LET r == RotatedBlock(b, t, ShouldRotate(inp))
    IN  [r EXCEPT !.x = b.x + MoveX(inp), !.y = b.y + MoveY(inp)]

(* lines 189-216: one block after position += (move_x, move_y), the move
   being the frame's move plus the change of the block's index *)
MovedBlock(b, t, inp) ==
    LET r == RotatedBlock(b, t, ShouldRotate(inp))
    IN  [r EXCEPT !.x = b.x + MoveX(inp) + (r.ix - b.ix),
                  !.y = b.y + MoveY(inp) + (r.iy - b.iy)]

(* An x_over taken from the first block alone *)
x_over_of_first(moved, n) ==
    IF n = 0 THEN 0
    ELSE IF moved[1].x < 0 THEN moved[1].x
    ELSE IF moved[1].x >= width THEN moved[1].x - width + 1
    ELSE 0

(* lines 205-213: x_over after the blocks 1..n have been scanned *)
RECURSIVE XOver(_, _)
XOver(moved, n) ==
    IF n = 0 THEN 0
    ELSE LET before == XOver(moved, n - 1)
             target == moved[n].x
         IN  IF target < 0 THEN Min(target, before)
             ELSE IF target >= width THEN Max(target - width + 1, before)
             ELSE before

(* lines 189-217: the four blocks after the first loop *)
MovedBlocks(blocks, t, inp) ==
    <<MovedBlock(blocks[1], t, inp), MovedBlock(blocks[2], t, inp),
      MovedBlock(blocks[3], t, inp), MovedBlock(blocks[4], t, inp)>>

(* x_over when the first loop has ended *)
FrameXOver(blocks, t, inp) == XOver(MovedBlocks(blocks, t, inp), 4)

(* A frame that computes x_over and does not take it off the blocks *)
clamp_skipped(moved, over) == moved

(* lines 219-222: x_over and y_over are taken off every block; y_over is never set *)
Clamped(moved, over) ==
    LET y_over == 0
    IN  Shift(moved, -over, -y_over)

(* lines 189-222: the blocks when check_tetromino_positions is first called *)
Candidate(blocks, t, inp) ==
    Clamped(MovedBlocks(blocks, t, inp), FrameXOver(blocks, t, inp))

(* lines 230-237 *)
try_moves == << <<1, 0>>, <<2, 0>>, <<-1, 0>>, <<-2, 0>>, <<-1, -2>>, <<1, -2>> >>

(* lines 239-243: the blocks at the n-th check of the loop; each try_move is
   added to the positions the previous iteration left *)
RECURSIVE TryMoved(_, _)
TryMoved(blocks, n) ==
    IF n = 0 THEN blocks
    ELSE Shift(TryMoved(blocks, n - 1), try_moves[n][1], try_moves[n][2])

(* lines 245-248: the iterations at which the check succeeds *)
TryHits(blocks, hp) ==
    {n \in 1..Len(try_moves) : check_tetromino_positions(TryMoved(blocks, n), hp)}

FirstHit(blocks, hp) == CHOOSE n \in TryHits(blocks, hp) : \A m \in TryHits(blocks, hp) : n <= m

(* A failed frame that leaves the blocks where the last attempt put them *)
revert_skipped(blocks, prev) == blocks

(* lines 262-268: positions back to prev_positions; Tetromino.index is left as it is *)
Revert(blocks, prev) ==
    LET back(b, p) == [b EXCEPT !.x = p.x, !.y = p.y]
    IN  <<back(blocks[1], prev[1]), back(blocks[2], prev[2]),
          back(blocks[3], prev[3]), back(blocks[4], prev[4])>>

(* lines 136-140: how many times the while loop lowers the blocks *)
RECURSIVE DropCount(_, _, _)
DropCount(blocks, hp, n) ==
    IF check_tetromino_positions(Shift(blocks, 0, -n), hp)
    THEN DropCount(blocks, hp, n + 1)
    ELSE n

(* A hard drop that leaves the blocks where the while loop stopped, without y += 1 *)
hard_drop_overshoot(blocks, hp) == Shift(blocks, 0, 0 - DropCount(blocks, hp, 0))

(* lines 136-146: the positions the hard drop gives to the blocks *)
HardDropped(blocks, hp) == Shift(blocks, 0, 1 - DropCount(blocks, hp, 0))

----------------------------------------------------------------------------
(* setup: no heap block, one spawned tetromino of a random type *)
Setup(types) ==
    /\ tetromino_type \in types
    /\ current = spawn_current_tetromino(tetromino_type)
    /\ heap = << >>
    /\ stage = "input"
    /\ keyboard_input = NoInput
    /\ outcome = [branch |-> "spawned", intents |-> NoInput]
    /\ x_over = 0
    /\ rejections = 0

Init == Setup(RandomTypes)

(* The frame's key presses and timer state reach the system (lines 122-124) *)
ReadInput(inp, tetrominoes) ==
    /\ stage = "input"
    /\ Len(heap) < 4 * tetrominoes
    /\ stage' = "update"
    /\ keyboard_input' = inp
    /\ UNCHANGED <<tetromino_type, current, heap, outcome, x_over, rejections>>

(* What every branch of move_current_tetromino leaves behind for the next frame *)
Done(branch, over) ==
    /\ stage' = "input"
    /\ keyboard_input' = NoInput
    /\ outcome' = [branch |-> branch,
                   intents |-> IF branch = "rejected" THEN keyboard_input ELSE NoInput]
    /\ x_over' = over

(* lines 135-153 *)
HardDrop(next_type) ==
    /\ stage = "update"
    /\ "hard" \in keyboard_input
    /\ heap' = HeapInsertAll(heap, HardDropped(current, heap))
    /\ current' = spawn_current_tetromino(next_type)
    /\ tetromino_type' = next_type
    /\ Done("hard_drop", 0)
    /\ UNCHANGED rejections

(* line 226: the first check succeeds, the candidate stays *)
Move ==
    LET moved == MovedBlocks(current, tetromino_type, keyboard_input)
        over == XOver(moved, 4)
        cand == Clamped(moved, over)
    IN  /\ stage = "update"
        /\ "hard" \notin keyboard_input
        /\ check_tetromino_positions(cand, heap)
        /\ current' = cand
        /\ Done("moved", over)
        /\ UNCHANGED <<tetromino_type, heap, rejections>>

(* lines 229-249 with a try_move that checks *)
WallKick ==
    LET moved == MovedBlocks(current, tetromino_type, keyboard_input)
        over == XOver(moved, 4)
        cand == Clamped(moved, over)
    IN  /\ stage = "update"
        /\ "hard" \notin keyboard_input
        /\ ShouldRotate(keyboard_input) # "none"
        /\ ~check_tetromino_positions(cand, heap)
        /\ TryHits(cand, heap) # {}
        /\ current' = TryMoved(cand, FirstHit(cand, heap))
        /\ Done("kicked", over)
        /\ UNCHANGED <<tetromino_type, heap, rejections>>

(* lines 229-249 without one, then lines 262-268 *)
RotationRejected ==
    LET moved == MovedBlocks(current, tetromino_type, keyboard_input)
        over == XOver(moved, 4)
        cand == Clamped(moved, over)
    IN  /\ stage = "update"
        /\ "hard" \notin keyboard_input
        /\ ShouldRotate(keyboard_input) # "none"
        /\ ~check_tetromino_positions(cand, heap)
        /\ TryHits(cand, heap) = {}
        /\ rejections < MaxRejected
        /\ current' = Revert(TryMoved(cand, Len(try_moves)), current)
        /\ Done("rejected", over)
        /\ rejections' = rejections + 1
        /\ UNCHANGED <<tetromino_type, heap>>

(* lines 250-268 *)
LockIn(next_type) ==
    LET moved == MovedBlocks(current, tetromino_type, keyboard_input)
        over == XOver(moved, 4)
        cand == Clamped(moved, over)
    IN  /\ stage = "update"
        /\ "hard" \notin keyboard_input
        /\ ShouldRotate(keyboard_input) = "none"
        /\ ~check_tetromino_positions(cand, heap)
        /\ heap' = HeapInsertAll(heap, Revert(cand, current))
        /\ current' = spawn_current_tetromino(next_type)
        /\ tetromino_type' = next_type
        /\ Done("locked", over)
        /\ UNCHANGED rejections

(* move_current_tetromino on the frame's input (lines 119-270): one of its branches *)
Update(types) ==
    \/ \E next_type \in types : HardDrop(next_type)
    \/ Move
    \/ WallKick
    \/ RotationRejected
    \/ \E next_type \in types : LockIn(next_type)

(* One frame: the input arrives, then move_current_tetromino runs *)
Frame(types, inputs, tetrominoes) ==
    \/ \E inp \in inputs : ReadInput(inp, tetrominoes)
    \/ Update(types)

Next == Frame(RandomTypes, Inputs, MaxTetrominoes)

Spec == Init /\ [][Next]_vars

----------------------------------------------------------------------------
(* Frames in which several intents coincide, for one tetromino type. The first
   tetromino is moved sideways and hard-dropped, one key a frame; the frames of
   the tetrominoes after it take up to CombinedKeys intents. *)
OpeningInputs == {{"left"}, {"right"}, {"hard"}}

CombinedInputs == {s \in SUBSET KeyNames : Cardinality(s) <= CombinedKeys}

CombinedTypes == {t \in TetrominoType : t = CombinedType}

ReadOpening(inp) == heap = << >> /\ ReadInput(inp, MaxTetrominoes)

ReadCombined(inp) == heap # << >> /\ ReadInput(inp, MaxTetrominoes)

NextCombined ==
    \/ \E inp \in OpeningInputs : ReadOpening(inp)
    \/ \E inp \in CombinedInputs : ReadCombined(inp)
    \/ Update(CombinedTypes)

SpecCombined == Setup(CombinedTypes) /\ [][NextCombined]_vars

----------------------------------------------------------------------------
(* The rotation of lines 193-216 alone: rotate_tetromino_block on the index of
   every block and the change of the index added to its position, with no
   clamp and no try_move after it. *)
FreeRotation(blocks, t, clockwise) ==
    MovedBlocks(blocks, t, IF clockwise THEN {"x"} ELSE {"z"})

(* A tetromino of any type, up to RotationShift columns away from where it spawns *)
RotationSetup ==
    /\ tetromino_type \in TetrominoType
    /\ \E dx \in -RotationShift..RotationShift :
           current = Shift(spawn_current_tetromino(tetromino_type), dx, 0)
    /\ heap = << >>
    /\ stage = "input"
    /\ keyboard_input = NoInput
    /\ outcome = [branch |-> "spawned", intents |-> NoInput]
    /\ x_over = 0
    /\ rejections = 0

Rotate(clockwise) ==
    /\ current' = FreeRotation(current, tetromino_type, clockwise)
    /\ UNCHANGED <<tetromino_type, heap, stage, keyboard_input, outcome, x_over, rejections>>

NextRotation == \E clockwise \in BOOLEAN : Rotate(clockwise)

SpecRotation == RotationSetup /\ [][NextRotation]_vars

----------------------------------------------------------------------------
InXBounds(x) == 0 <= x /\ x < width

Updating == stage = "update" /\ "hard" \notin keyboard_input

FrameCandidate == Candidate(current, tetromino_type, keyboard_input)

(* C1 (as claimed): every Heap block has 0 <= x < width. *)
C1_HeapInXBounds ==
    \A j \in 1..Len(heap) : InXBounds(heap[j][1])

(* C2 (as claimed): no two Heap blocks share a grid position. *)
C2_HeapDistinct ==
    \A i, j \in 1..Len(heap) : i # j => heap[i] # heap[j]

(* The offsets of the wall-kick ladder as C3 lists them, each taken from the
   clamped candidate itself *)
C3_Ladder == << <<1, 0>>, <<2, 0>>, <<-1, 0>>, <<-2, 0>>, <<-1, -2>>, <<1, -2>> >>
C3_Kicked(n) == Shift(FrameCandidate, C3_Ladder[n][1], C3_Ladder[n][2])
C3_Valid(n) == check_tetromino_positions(C3_Kicked(n), heap)

(* C3 (as claimed): in a frame that rotates a valid tetromino and whose clamped
   candidate C is invalid, the tetromino becomes C + d for the first offset d
   of the ladder with C + d valid, and the rotation is rejected exactly when
   there is none. *)
C3_KickFromCandidate ==
    [][(Updating /\ ShouldRotate(keyboard_input) # "none"
            /\ check_tetromino_positions(current, heap)
            /\ ~check_tetromino_positions(FrameCandidate, heap))
        => IF \E n \in 1..6 : C3_Valid(n)
           THEN /\ outcome'.branch = "kicked"
                /\ \E n \in 1..6 : /\ C3_Valid(n)
                                   /\ \A m \in 1..(n - 1) : ~C3_Valid(m)
                                   /\ current' = C3_Kicked(n)
           ELSE outcome'.branch = "rejected"]_vars

(* C4: in a frame that rotates, whose clamped candidate is invalid and in which
   no try_move checks, the four blocks are back at the positions they had when
   the frame began, they are still the current tetromino, the heap is the same
   and nothing is spawned - also when the frame moved down as well. *)
C4_RejectedRotationReverts ==
    [][(Updating /\ ShouldRotate(keyboard_input) # "none"
            /\ ~check_tetromino_positions(FrameCandidate, heap)
            /\ TryHits(FrameCandidate, heap) = {})
        => /\ Positions(current') = Positions(current)
           /\ heap' = heap
           /\ tetromino_type' = tetromino_type
           /\ outcome'.branch = "rejected"]_vars

(* A rotation has just been rejected in a frame that also moved down *)
C4_Witness ==
    /\ outcome.branch = "rejected"
    /\ outcome.intents \cap {"down", "pulse"} # {}
    /\ check_tetromino_positions(current, heap)

(* The bounding box of a type as C5 gives it: 4 for I and O, 3 for the others *)
C5_BBox(t) == IF t \in {0, 1} THEN 4 ELSE 3

C5_Spawned(blocks, t) ==
    \A i \in 1..4 :
        /\ blocks[i].x = BLOCK_INDICES[t + 1][i][1] + 3
        /\ blocks[i].y = height - C5_BBox(t) + BLOCK_INDICES[t + 1][i][2]

(* C5: a frame with no rotation and no hard drop whose clamped candidate is
   invalid locks the tetromino: the heap gains exactly the four positions the
   blocks had when the frame began, and the new current tetromino has its four
   blocks at (ix + 3, height - bbox + iy); no other frame without hard drop
   changes the heap. *)
C5_LockIn ==
    [][Updating
        => IF ShouldRotate(keyboard_input) = "none"
                /\ ~check_tetromino_positions(FrameCandidate, heap)
           THEN /\ heap' = heap \o Positions(current)
                /\ C5_Spawned(current', tetromino_type')
                /\ outcome'.branch = "locked"
           ELSE /\ heap' = heap
                /\ outcome'.branch # "locked"]_vars

C5_Witness ==
    /\ outcome.branch = "locked"
    /\ Len(heap) = 4
    /\ C5_Spawned(current, tetromino_type)

(* Some block of the candidate is on a heap block *)
OnHeap(blocks) ==
    \E i \in 1..4 : <<blocks[i].x, blocks[i].y>> \in HeapPositions(heap)

(* C6 (as claimed): a frame with only a left or only a right intent, whose
   candidate coincides with a heap block while the tetromino itself does not,
   leaves the tetromino current and the heap unchanged. *)
C6_SidewaysNeverLocks ==
    [][(Updating /\ keyboard_input \in {{"left"}, {"right"}}
            /\ check_tetromino_positions(current, heap) /\ OnHeap(FrameCandidate))
        => /\ heap' = heap
           /\ tetromino_type' = tetromino_type
           /\ Indices(current') = Indices(current)
           /\ outcome'.branch # "locked"]_vars

(* The placements a frame hands to check_tetromino_positions: the clamped
   candidate and, when that one fails in a rotating frame, the try_moves up to
   the first that checks *)
Checked ==
    LET cand == FrameCandidate
        hits == TryHits(cand, heap)
        last == IF hits = {} THEN Len(try_moves) ELSE FirstHit(cand, heap)
    IN  IF check_tetromino_positions(cand, heap) \/ ShouldRotate(keyboard_input) = "none"
        THEN {cand}
        ELSE {cand} \cup {TryMoved(cand, n) : n \in 1..last}

(* C7 (as claimed): every placement handed to the validity check, and the
   current tetromino in every state, has its four blocks in 0 <= x < width. *)
C7_NeverOutOfXBounds ==
    /\ \A i \in 1..4 : InXBounds(current[i].x)
    /\ Updating => \A blocks \in Checked : \A i \in 1..4 : InXBounds(blocks[i].x)

(* C8 (as claimed): there is one anchor such that every current block is at
   anchor + its index. *)
C8_PositionFollowsIndex ==
    \A i \in 2..4 :
        /\ current[i].x - current[i].ix = current[1].x - current[1].ix
        /\ current[i].y - current[i].iy = current[1].y - current[1].iy

RECURSIVE Rotations(_, _, _, _)
Rotations(blocks, t, clockwise, n) ==
    IF n = 0 THEN blocks
    ELSE FreeRotation(Rotations(blocks, t, clockwise, n - 1), t, clockwise)

(* C9: for every type, four rotations in the same direction with no clamp or
   kick in between return the index and the position of every block, and a
   clockwise rotation followed by a counter-clockwise one does too. *)
C9_RotationCycle ==
    /\ Rotations(current, tetromino_type, TRUE, 4) = current
    /\ Rotations(current, tetromino_type, FALSE, 4) = current
    /\ FreeRotation(FreeRotation(current, tetromino_type, TRUE), tetromino_type, FALSE) = current

(* A tetromino that has been rotated: its indices are not those it spawned with *)
C9_Witness ==
    /\ Indices(current) # BLOCK_INDICES[tetromino_type + 1]
    /\ tetromino_type = 6

AtLeftWall(blocks) ==
    /\ \A i \in 1..4 : InXBounds(blocks[i].x)
    /\ \E i \in 1..4 : blocks[i].x = 0

AtRightWall(blocks) ==
    /\ \A i \in 1..4 : InXBounds(blocks[i].x)
    /\ \E i \in 1..4 : blocks[i].x = width - 1

(* C10: when the current tetromino is valid, within the x bounds and touches
   the left (right) wall, a frame with only the left (right) intent leaves the
   four positions as they are, adds nothing to the heap and does not lock. *)
C10_ClampAtWall ==
    [][(Updating /\ check_tetromino_positions(current, heap)
            /\ \/ keyboard_input = {"left"} /\ AtLeftWall(current)
               \/ keyboard_input = {"right"} /\ AtRightWall(current))
        => /\ Positions(current') = Positions(current)
           /\ heap' = heap
           /\ tetromino_type' = tetromino_type
           /\ outcome'.branch = "moved"]_vars

(* The clamp has just held a valid tetromino at a wall *)
C10_Witness ==
    /\ outcome.branch = "moved"
    /\ stage = "input"
    /\ check_tetromino_positions(current, heap)
    /\ \/ x_over = -1 /\ AtLeftWall(current)
       \/ x_over = 1 /\ AtRightWall(current)
    /\ C8_PositionFollowsIndex

----------------------------------------------------------------------------
FrameMoved == MovedBlocks(current, tetromino_type, keyboard_input)

(* C11: in every frame without hard drop the candidate that is checked first
   is the four moved blocks shifted by one common amount in x and by nothing
   in y, and all its blocks are in 0 <= x < width, with and without rotation. *)
C11_SharedClamp ==
    Updating
        => LET moved == FrameMoved
               cand == FrameCandidate
               shift == moved[1].x - cand[1].x
           IN  \A i \in 1..4 :
                   /\ InXBounds(cand[i].x)
                   /\ moved[i].x - cand[i].x = shift
                   /\ cand[i].y = moved[i].y

(* A frame that rotates and whose moved blocks pass a wall is about to be clamped *)
C11_Witness ==
    /\ Updating
    /\ ShouldRotate(keyboard_input) # "none"
    /\ \E i \in 1..4 : ~InXBounds(FrameMoved[i].x)
    /\ check_tetromino_positions(current, heap)

(* C12: every Heap block has y >= 0, whether a failed move or a hard drop
   put it on the heap. *)
C12_HeapAboveFloor ==
    \A j \in 1..Len(heap) : heap[j][2] >= 0

(* A hard drop has just put a second tetromino on the heap, down on the floor *)
C12_Witness ==
    /\ outcome.branch = "hard_drop"
    /\ Len(heap) = 8
    /\ \E j \in 5..8 : heap[j][2] = 0

(* C13: every step keeps every Heap block where it was and removes none; the
   heap gains nothing or the four blocks of one tetromino at once, so its size
   stays a multiple of four, and the current tetromino always has four blocks. *)
C13_HeapGrowsByFour ==
    [][/\ Len(heap') >= Len(heap)
       /\ SubSeq(heap', 1, Len(heap)) = heap
       /\ Len(heap') - Len(heap) \in {0, 4}
       /\ Len(heap) % 4 = 0
       /\ Len(heap') % 4 = 0
       /\ Len(current) = 4
       /\ Len(current') = 4]_vars

(* A failed move has just put a tetromino on a heap that held one already *)
C13_Witness ==
    /\ outcome.branch = "locked"
    /\ Len(heap) = 8
    /\ Len(current) = 4

----------------------------------------------------------------------------
(* The frames from the point on at which no rotation is requested any more,
   under the schedule of the program: move_current_tetromino runs in every
   frame (add_system, line 17), and soft_drop_timer, ticked in every frame and
   reset whenever it has finished (lines 13, 156, 168-175), finishes again and
   again. The tetromino has been rotated any number of times where it spawned. *)
LiveInputs == {s \in Inputs : ShouldRotate(s) = "none"}

LiveSetup ==
    /\ tetromino_type \in RandomTypes
    /\ \E n \in 0..3 :
           current = Rotations(spawn_current_tetromino(tetromino_type),
                               tetromino_type, TRUE, n)
    /\ heap = << >>
    /\ stage = "input"
    /\ keyboard_input = NoInput
    /\ outcome = [branch |-> "spawned", intents |-> NoInput]
    /\ x_over = 0
    /\ rejections = 0

ReadPulse == ReadInput({"pulse"}, LiveTetrominoes)

(* The branches move_current_tetromino can take when should_rotate is None *)
UpdateUnrotated(types) ==
    \/ \E next_type \in types : HardDrop(next_type)
    \/ Move
    \/ \E next_type \in types : LockIn(next_type)

NextLive ==
    \/ \E inp \in LiveInputs : ReadInput(inp, LiveTetrominoes)
    \/ UpdateUnrotated(RandomTypes)

SpecLive ==
    /\ LiveSetup
    /\ [][NextLive]_vars
    /\ WF_vars(UpdateUnrotated(RandomTypes))
    /\ SF_vars(ReadPulse)

(* C14: when no rotation is requested any more and the timer keeps finishing,
   every current tetromino is eventually on the heap and a new one is the
   current tetromino. *)
C14_EventuallyLocked ==
    \A n \in 0..(LiveTetrominoes - 1) :
        (Len(heap) = 4 * n) ~> (Len(heap) = 4 * (n + 1) /\ stage = "input")

(* The tetromino went down to the floor, a further move down failed and put it
   on the heap *)
C14_Witness ==
    /\ outcome.branch = "locked"
    /\ Len(heap) = 4
    /\ \E j \in 1..4 : heap[j][2] = 0
    /\ \A j \in 1..4 : InXBounds(heap[j][1])
    /\ Len(current) = 4

(* C15: the index of every current block lies in the square of its type,
   0 <= x, y < 4 for I and O and < 3 for the others, and the four indices
   differ from one another, whatever rotations were made, kicked or rejected. *)
C15_IndexInSquare ==
    /\ \A i \in 1..4 :
           /\ 0 <= current[i].ix /\ current[i].ix < C5_BBox(tetromino_type)
           /\ 0 <= current[i].iy /\ current[i].iy < C5_BBox(tetromino_type)
    /\ \A i, j \in 1..4 :
           i # j => <<current[i].ix, current[i].iy>> # <<current[j].ix, current[j].iy>>

(* A rotation of a T has just been rejected and has left its indices rotated *)
C15_Witness ==
    /\ outcome.branch = "rejected"
    /\ tetromino_type = 2
    /\ Indices(current) # BLOCK_INDICES[tetromino_type + 1]

(* The move and the rotated index as C16 gives them *)
C16_MoveX == (IF "right" \in keyboard_input THEN 1 ELSE 0)
                - (IF "left" \in keyboard_input THEN 1 ELSE 0)
C16_MoveY == IF "down" \in keyboard_input \/ "pulse" \in keyboard_input THEN -1 ELSE 0
C16_Index(i) ==
    LET index == <<current[i].ix, current[i].iy>>
        last == (IF tetromino_type \in {0, 1} THEN 4 ELSE 3) - 1
    IN  IF "z" \in keyboard_input THEN <<last - index[2], index[1]>>
        ELSE IF "x" \in keyboard_input THEN <<index[2], last - index[1]>>
        ELSE index

(* C16: a frame without hard drop whose clamped candidate is valid leaves the
   heap as it is and gives every block the position it had, plus (move_x,
   move_y), plus the change of its index, minus the frame's one x_over; move_y
   is -1 once, also when the key and the timer coincide. *)
C16_ValidCandidateCommitted ==
    [][(Updating /\ check_tetromino_positions(FrameCandidate, heap))
        => /\ heap' = heap
           /\ tetromino_type' = tetromino_type
           /\ outcome'.branch = "moved"
           /\ \A i \in 1..4 :
                  LET index == C16_Index(i)
                  IN  /\ current'[i].ix = index[1]
                      /\ current'[i].iy = index[2]
                      /\ current'[i].x = current[i].x + C16_MoveX
                                             + (index[1] - current[i].ix) - x_over'
                      /\ current'[i].y = current[i].y + C16_MoveY
                                             + (index[2] - current[i].iy)]_vars

(* A candidate that was rotated and clamped has just become the current
   tetromino, over a heap *)
C16_Witness ==
    /\ outcome.branch = "moved"
    /\ x_over # 0
    /\ heap # << >>
    /\ Indices(current) # BLOCK_INDICES[tetromino_type + 1]
    /\ C8_PositionFollowsIndex
    /\ \A i \in 1..4 : InXBounds(current[i].x)

(* C17 (as claimed): when a frame begins, no current block is below the floor
   or on a Heap block, the frame after a spawn included. *)
C17_ValidAtFrameStart ==
    stage = "input" => check_tetromino_positions(current, heap)

(* C18 (as claimed): a frame with no key and no timer pulse leaves the
   positions and the indices of the current blocks and the heap as they are. *)
C18_IdleFrameChangesNothing ==
    [][(Updating /\ keyboard_input = NoInput)
        => /\ current' = current
           /\ heap' = heap
           /\ tetromino_type' = tetromino_type
           /\ outcome'.branch = "moved"]_vars

(* A set of grid cells moved so that its least x and its least y are 0 *)
C19_Normal(cells) ==
    LET min_x == CHOOSE x \in {c[1] : c \in cells} : \A c \in cells : x <= c[1]
        min_y == CHOOSE y \in {c[2] : c \in cells} : \A c \in cells : y <= c[2]
    IN  {<<c[1] - min_x, c[2] - min_y>> : c \in cells}

(* The cells of type t turned clockwise n times in the square of the type *)
RECURSIVE C19_Turned(_, _)
C19_Turned(t, n) ==
    IF n = 0 THEN {BLOCK_INDICES[t + 1][i] : i \in 1..4}
    ELSE {<<c[2], C5_BBox(t) - 1 - c[1]>> : c \in C19_Turned(t, n - 1)}

(* C19 (as claimed): the grid positions of the four current blocks are a
   translate of one of the four rotations of the shape of their type. *)
C19_NeverDeformed ==
    \E n \in 0..3 :
        C19_Normal({<<current[i].x, current[i].y>> : i \in 1..4})
            = C19_Normal(C19_Turned(tetromino_type, n))

(* C20 (as claimed): a frame with the hard drop key puts the current blocks on
   the heap k >= 0 rows below where they were, in their columns, at a valid
   placement whose next lower one is invalid, and spawns a new tetromino. *)
C20_HardDropStraightDown ==
    [][(stage = "update" /\ "hard" \in keyboard_input)
        => /\ \E k \in 0..height :
                  LET dropped == Shift(current, 0, 0 - k)
                  IN  /\ heap' = heap \o Positions(dropped)
                      /\ check_tetromino_positions(dropped, heap)
                      /\ ~check_tetromino_positions(Shift(dropped, 0, -1), heap)
           /\ C5_Spawned(current', tetromino_type')
           /\ outcome'.branch = "hard_drop"]_vars

====
